---- MODULE Spec2Model ----
(***************************************************************************)
(* The three batch pipelines of src/CSI_week5_assignment.ipynb:            *)
(*   - the RFM / CLV notebook cell (lines 38-94),                          *)
(*   - the streamlit dashboard app.py (lines 148-358),                     *)
(*   - model-training.py: generate_data and the classifier pipeline        *)
(*     (lines 361-454).                                                    *)
(* Each pipeline has its own specification over the shared variables.      *)
(***************************************************************************)
EXTENDS Integers, Sequences, FiniteSets

VARIABLES
    \* RFM notebook cell
    sheet,          \* the rows pd.read_excel returned (line 46); never written
    data,           \* the DataFrame `data`, rebound / mutated by lines 49-51
    latest_date,    \* line 54
    rfm,            \* the DataFrame `rfm`, keyed by Customer ID
    pc,             \* position in the notebook cell
    \* model-training.py, part 1
    rng,            \* the global state of np.random
    customer_data,  \* what the last generate_data call returned
    calls,          \* log of the generate_data calls made so far
    sample,         \* the feature values drawn for one row
    binom_p,        \* the probability handed to np.random.binomial for it
    gpc,            \* position in the computation of one row's label
    \* model-training.py, part 2, and the Predict Churn page of app.py
    train,          \* X_train with y_train as its churn column (line 424)
    model,          \* the fitted Pipeline: the encoder's categories_, classes_
    input_data,     \* the one-row frame built from the form (line 277)
    result,         \* what model.predict / model.predict_proba gave for it
    cpc,            \* position in training and inference
    \* app.py
    disk,           \* churn_model.joblib and customer_churn.csv as they are now
    cache_resource, \* st.cache_resource's entry for load_model: {} or {model}
    cache_data,     \* st.cache_data's entry for load_data: {} or {frame}
    loads,          \* how often joblib.load and pd.read_csv have run
    page,           \* the sidebar radio's value (line 183)
    app_model,      \* the script's `model` (line 186)
    app_data,       \* the script's `data` (line 187)
    view,           \* what the page handler derived and showed
    reruns,         \* script runs started so far
    app_pc          \* position in the script run

rfmVars == <<sheet, data, latest_date, rfm, pc>>
genVars == <<rng, customer_data, calls>>
rowVars == <<sample, binom_p, gpc>>
churnVars == <<train, model, input_data, result, cpc>>
appVars == <<disk, cache_resource, cache_data, loads, page, app_model, app_data,
             view, reruns, app_pc>>
vars == <<rfmVars, genVars, rowVars, churnVars, appVars>>

\* the pipelines a specification does not run stay as they are
IdleRFM == sheet = <<>> /\ data = <<>> /\ latest_date = 0 /\ rfm = <<>> /\ pc = "off"
IdleGen == rng = 0 /\ customer_data = <<>> /\ calls = <<>>
IdleRow == sample = <<>> /\ binom_p = 0 /\ gpc = "off"
IdleChurn ==
    train = <<>> /\ model = <<>> /\ input_data = <<>> /\ result = <<>> /\ cpc = "off"
IdleApp ==
    /\ disk = <<>> /\ cache_resource = {} /\ cache_data = {} /\ loads = <<>>
    /\ page = "" /\ app_model = <<>> /\ app_data = <<>> /\ view = <<>>
    /\ reruns = 0 /\ app_pc = "off"

(***************************************************************************)
(* Bounds and value domains of the RFM inputs.                             *)
(***************************************************************************)
MaxRows == 3            \* rows in the spreadsheet
HoursPerDay == 24       \* timestamps are counted in hours

NaN == "NaN"            \* a missing Customer ID
NaT == -1               \* max() of an empty datetime column
NoFrame == <<>>         \* a DataFrame not yet built

\* Invoice ids are strings, modelled as sequences of characters.  The lines
\* of the spreadsheet: two lines of invoice 1, one of invoice 2, and one of
\* the cancellation C1, which returns an item.
LineSeq == << [Invoice |-> <<"1">>, Quantity |-> 1],
              [Invoice |-> <<"1">>, Quantity |-> 3],
              [Invoice |-> <<"2">>, Quantity |-> 2],
              [Invoice |-> <<"C", "1">>, Quantity |-> 0 - 1] >>
CustomerSeq == <<NaN, "13085", "13078">>
PriceSeq == <<5>>
\* timestamps in hours: midnight, noon, next midnight
DateSeq == <<0, 12, 24>>

NumRowValues == Len(LineSeq) * Len(CustomerSeq) * Len(PriceSeq) * Len(DateSeq)

\* The i-th row value (mixed-radix decoding of i).
RowValue(i) ==
    LET a == i - 1
        nL == Len(LineSeq)
        nC == Len(CustomerSeq)
        nP == Len(PriceSeq)
    IN  [Invoice     |-> LineSeq[(a % nL) + 1].Invoice,
         Customer    |-> CustomerSeq[((a \div nL) % nC) + 1],
         Quantity    |-> LineSeq[(a % nL) + 1].Quantity,
         Price       |-> PriceSeq[((a \div (nL * nC)) % nP) + 1],
         InvoiceDate |-> DateSeq[(a \div (nL * nC * nP)) + 1]]

(***************************************************************************)
(* pandas helpers                                                          *)
(***************************************************************************)
Range(s) == {s[i] : i \in 1..Len(s)}

MaxOf(S) == CHOOSE x \in S : \A y \in S : y <= x
MinOf(S) == CHOOSE x \in S : \A y \in S : x <= y

RECURSIVE SeqSum(_)
SeqSum(s) == IF s = <<>> THEN 0 ELSE Head(s) + SeqSum(Tail(s))

\* Series.astype(str) on an Invoice that is already a string
astype_str(v) == v

\* Series.str.startswith
startswith(s, ch) == Len(s) > 0 /\ s[1] = ch

\* Timedelta.days: whole days, rounded down
\* (variant: a started day counts as a whole one)
daysRoundedUp(td) == (td + HoursPerDay - 1) \div HoursPerDay
days(td) == td \div HoursPerDay

\* Series.max() / Series.min() of a datetime column
DateMax(df) == IF df = <<>> THEN NaT ELSE MaxOf({df[i].InvoiceDate : i \in 1..Len(df)})
DateMin(df) == IF df = <<>> THEN NaT ELSE MinOf({df[i].InvoiceDate : i \in 1..Len(df)})

\* Series.nunique()
nunique(s) == Cardinality(Range(s))

\* the rows of one group of groupby('Customer ID')
GroupRows(df, c) == SelectSeq(df, LAMBDA r : r.Customer = c)

\* the keys of groupby('Customer ID')
GroupKeys(df) == {df[i].Customer : i \in 1..Len(df)}

(***************************************************************************)
(* The notebook cell, lines 49-69                                          *)
(***************************************************************************)
\* line 49: data.dropna(subset=['Customer ID'], inplace=True)
\* (variant: without inplace=True the result is discarded)
dropnaNotInplace(df) == df
dropna(df) == SelectSeq(df, LAMBDA r : r.Customer # NaN)

\* line 50: data[~data['Invoice'].astype(str).str.startswith('C')]
NotCancelled(df) == SelectSeq(df, LAMBDA r : ~startswith(astype_str(r.Invoice), "C"))

\* line 51: data['TotalPrice'] = data['Quantity'] * data['Price']
WithTotalPrice(df) ==
    [i \in 1..Len(df) |->
        [Invoice |-> df[i].Invoice, Customer |-> df[i].Customer,
         Quantity |-> df[i].Quantity, Price |-> df[i].Price,
         InvoiceDate |-> df[i].InvoiceDate,
         TotalPrice |-> df[i].Quantity * df[i].Price]]

\* lines 57-63: the three aggregates of one customer's group
\* (variant: x.min() in place of x.max())
RecencyFromFirst(df, ref, c) == days(ref - DateMin(GroupRows(df, c)))
Recency(df, ref, c) == days(ref - DateMax(GroupRows(df, c)))
\* (variant: 'count' in place of 'nunique')
FrequencyRowCount(df, c) == Len(GroupRows(df, c))
Frequency(df, c) ==
    LET g == GroupRows(df, c) IN nunique([i \in 1..Len(g) |-> g[i].Invoice])
Monetary(df, c) ==
    LET g == GroupRows(df, c) IN SeqSum([i \in 1..Len(g) |-> g[i].TotalPrice])

\* line 66: data.groupby('Customer ID')['InvoiceDate'].min()
FirstPurchaseDate(df, c) == DateMin(GroupRows(df, c))

\* lines 68-69: (latest_date - rfm['FirstPurchaseDate']).dt.days
\* (variants: measured to the customer's own last purchase; operands swapped)
TenureSpan(df, ref, c) == days(DateMax(GroupRows(df, c)) - DateMin(GroupRows(df, c)))
TenureSwapped(df, ref, c) == days(FirstPurchaseDate(df, c) - ref)
Tenure(df, ref, c) == days(ref - FirstPurchaseDate(df, c))

Preprocess ==
    /\ pc = "loaded"
    /\ data' = WithTotalPrice(NotCancelled(dropna(data)))
    /\ pc' = "preprocessed"
    /\ UNCHANGED <<sheet, latest_date, rfm, genVars, rowVars, churnVars, appVars>>

SetReferenceDate ==
    /\ pc = "preprocessed"
    /\ latest_date' = DateMax(data)
    /\ pc' = "referenced"
    /\ UNCHANGED <<sheet, data, rfm, genVars, rowVars, churnVars, appVars>>

Aggregate ==
    /\ pc = "referenced"
    /\ rfm' = [c \in GroupKeys(data) |->
                 [Recency   |-> Recency(data, latest_date, c),
                  Frequency |-> Frequency(data, c),
                  Monetary  |-> Monetary(data, c)]]
    /\ pc' = "aggregated"
    /\ UNCHANGED <<sheet, data, latest_date, genVars, rowVars, churnVars, appVars>>

AddTenure ==
    /\ pc = "aggregated"
    /\ rfm' = [c \in DOMAIN rfm |->
                 [Recency   |-> rfm[c].Recency,
                  Frequency |-> rfm[c].Frequency,
                  Monetary  |-> rfm[c].Monetary,
                  FirstPurchaseDate |-> FirstPurchaseDate(data, c),
                  Tenure    |-> Tenure(data, latest_date, c)]]
    /\ pc' = "done"
    /\ UNCHANGED <<sheet, data, latest_date, genVars, rowVars, churnVars, appVars>>

\* the frame pd.read_excel returned (line 46).  Every step of the cell is
\* insensitive to row order, so the frames are enumerated up to row order.
InitRFM ==
    /\ \E n \in 0..MaxRows : \E s \in [1..n -> 1..NumRowValues] :
          /\ \A k \in 1..(n - 1) : s[k] <= s[k + 1]
          /\ sheet = [k \in 1..n |-> RowValue(s[k])]
    /\ data = sheet
    /\ latest_date = NaT
    /\ rfm = NoFrame
    /\ pc = "loaded"
    /\ IdleGen /\ IdleRow /\ IdleChurn /\ IdleApp

NextRFM == Preprocess \/ SetReferenceDate \/ Aggregate \/ AddTenure

SpecRFM == InitRFM /\ [][NextRFM]_vars

(***************************************************************************)
(* Properties of the RFM feature builder                                   *)
(***************************************************************************)
Aggregated == pc \in {"aggregated", "done"}

\* the rows of a frame that belong to customer c
RowsOf(df, c) == {i \in 1..Len(df) : df[i].Customer = c}

\* the rows of the spreadsheet that are neither anonymous nor cancellations
ValidSheetRows ==
    {i \in 1..Len(sheet) : sheet[i].Customer # NaN /\ sheet[i].Invoice[1] # "C"}
ValidRowsOf(c) == {i \in ValidSheetRows : sheet[i].Customer = c}
ValidDates(S) == {sheet[i].InvoiceDate : i \in S}

RECURSIVE SheetTotal(_)
SheetTotal(S) ==
    IF S = {} THEN 0
    ELSE LET i == CHOOSE j \in S : TRUE
         IN  sheet[i].Quantity * sheet[i].Price + SheetTotal(S \ {i})

\* C1: Frequency of every customer in the output is the number of distinct
\* Invoice identifiers among that customer's remaining rows, not the number
\* of rows.
C1_FrequencyCountsDistinctInvoices ==
    Aggregated =>
        \A c \in DOMAIN rfm :
            rfm[c].Frequency = Cardinality({data[i].Invoice : i \in RowsOf(data, c)})

\* a customer with three rows spread over two distinct invoices
C1_Witness ==
    /\ pc = "done"
    /\ \E c \in DOMAIN rfm :
          /\ Cardinality(RowsOf(data, c)) = 3
          /\ rfm[c].Frequency = 2

\* C2: Recency is >= 0 for every customer of the output and is 0 for the
\* customer that owns the latest remaining transaction; the reference date
\* is the maximum InvoiceDate of the remaining rows.
C2_RecencyNonNegativeZeroForLatest ==
    Aggregated =>
        /\ \A i \in 1..Len(data) : data[i].InvoiceDate <= latest_date
        /\ data # <<>> => \E i \in 1..Len(data) : data[i].InvoiceDate = latest_date
        /\ \A c \in DOMAIN rfm :
              /\ rfm[c].Recency >= 0
              /\ (\E i \in RowsOf(data, c) :
                     \A j \in 1..Len(data) : data[j].InvoiceDate <= data[i].InvoiceDate)
                   => rfm[c].Recency = 0

\* the owner of the latest transaction also bought a day earlier, and another
\* customer is a day behind
C2_Witness ==
    /\ pc = "done"
    /\ \E c, d \in DOMAIN rfm :
          /\ rfm[c].Recency = 0
          /\ Cardinality(ValidDates(RowsOf(data, c))) > 1
          /\ rfm[d].Recency > 0

\* C3 as stated: a customer with a single transaction has Tenure = 0.
C3_SingleTransactionTenureZero ==
    pc = "done" =>
        \A c \in DOMAIN rfm :
            Cardinality(RowsOf(data, c)) = 1 => rfm[c].Tenure = 0

\* C3 amended: a customer with a single transaction has Tenure equal to the
\* whole days between that transaction and the reference date, which is 0
\* exactly when the transaction is less than one day before the reference date.
C3_SingleTransactionTenureIsAge ==
    pc = "done" =>
        \A c \in DOMAIN rfm :
            \A i \in RowsOf(data, c) :
                RowsOf(data, c) = {i} =>
                    /\ rfm[c].Tenure * HoursPerDay <= latest_date - data[i].InvoiceDate
                    /\ latest_date - data[i].InvoiceDate < (rfm[c].Tenure + 1) * HoursPerDay
                    /\ rfm[c].Tenure = 0 <=>
                            latest_date - data[i].InvoiceDate < HoursPerDay

\* single-transaction customers: one half a day, one a whole day behind
C3_Witness ==
    /\ pc = "done"
    /\ \E c, d \in DOMAIN rfm :
          /\ Cardinality(RowsOf(data, c)) = 1
          /\ Cardinality(RowsOf(data, d)) = 1
          /\ rfm[c].Tenure = 1
          /\ rfm[d].Tenure = 0

\* C4 as stated: Tenure >= 0, and Tenure = 0 only if the customer's first
\* purchase date and the reference date coincide, be it as timestamps or as
\* calendar days.
C4_TenureZeroOnlyIfDatesCoincide ==
    pc = "done" =>
        \A c \in DOMAIN rfm :
            /\ rfm[c].Tenure >= 0
            /\ rfm[c].Tenure = 0 =>
                  \/ rfm[c].FirstPurchaseDate = latest_date
                  \/ rfm[c].FirstPurchaseDate \div HoursPerDay
                        = latest_date \div HoursPerDay

\* C4 amended: Tenure >= 0, and Tenure = 0 only if the customer's first
\* purchase is less than one day (24 hours) before the reference date.
C4_TenureZeroOnlyWithinADay ==
    pc = "done" =>
        \A c \in DOMAIN rfm :
            LET first == MinOf(ValidDates(ValidRowsOf(c)))
                ref == MaxOf(ValidDates(ValidSheetRows))
            IN  /\ rfm[c].Tenure >= 0
                /\ rfm[c].Tenure = 0 => (0 <= ref - first /\ ref - first < HoursPerDay)

\* Tenure 0 with a first purchase that is not at the reference date, next to
\* a customer with a positive Tenure
C4_Witness ==
    /\ pc = "done"
    /\ \E c, d \in DOMAIN rfm :
          /\ rfm[c].Tenure = 0
          /\ rfm[c].FirstPurchaseDate < latest_date
          /\ rfm[d].Tenure > 0

\* C5: rows with a missing Customer ID or an Invoice starting with 'C' are
\* gone before any aggregate is taken: the reference date and every
\* customer's Recency, Frequency, Monetary and Tenure are those of the
\* remaining rows alone, and the output has exactly one record per Customer
\* ID of the remaining rows.
C5_ExcludedRowsNeverAggregated ==
    /\ pc # "loaded" =>
          /\ Len(data) = Cardinality(ValidSheetRows)
          /\ \A i \in 1..Len(data) :
                data[i].Customer # NaN /\ data[i].Invoice[1] # "C"
    /\ pc \in {"referenced", "aggregated", "done"} /\ ValidSheetRows # {} =>
          latest_date = MaxOf(ValidDates(ValidSheetRows))
    /\ Aggregated =>
          /\ DOMAIN rfm = {sheet[i].Customer : i \in ValidSheetRows}
          /\ \A c \in DOMAIN rfm :
                LET ref == MaxOf(ValidDates(ValidSheetRows))
                    mine == ValidRowsOf(c)
                IN  /\ rfm[c].Recency = (ref - MaxOf(ValidDates(mine))) \div HoursPerDay
                    /\ rfm[c].Frequency = Cardinality({sheet[i].Invoice : i \in mine})
                    /\ rfm[c].Monetary = SheetTotal(mine)
                    /\ pc = "done" =>
                          rfm[c].Tenure = (ref - MinOf(ValidDates(mine))) \div HoursPerDay

\* an anonymous row and a cancellation, both later than the only remaining
\* row; the cancelled customer has no record
C5_Witness ==
    /\ pc = "done"
    /\ Cardinality(DOMAIN rfm) = 1
    /\ \E i, j \in 1..Len(sheet) :
          /\ sheet[i].Customer = NaN
          /\ sheet[j].Customer # NaN
          /\ sheet[j].Customer \notin DOMAIN rfm
          /\ sheet[j].Invoice[1] = "C"
          /\ sheet[i].InvoiceDate > latest_date
          /\ sheet[j].InvoiceDate > latest_date

\* C10: Tenure >= Recency for every customer of the output, with equality
\* whenever the customer's first and last purchase have the same timestamp.
C10_TenureAtLeastRecency ==
    pc = "done" =>
        \A c \in DOMAIN rfm :
            /\ rfm[c].Tenure >= rfm[c].Recency
            /\ Cardinality(ValidDates(ValidRowsOf(c))) = 1 =>
                    rfm[c].Tenure = rfm[c].Recency

\* one customer with Tenure > Recency, one single-transaction customer with
\* Tenure = Recency > 0
C10_Witness ==
    /\ pc = "done"
    /\ \E c, d \in DOMAIN rfm :
          /\ rfm[c].Tenure > rfm[c].Recency
          /\ Cardinality(RowsOf(data, d)) = 1
          /\ rfm[d].Recency > 0
(***************************************************************************)
(* model-training.py, part 1: generate_data (lines 367-399)                *)
(*                                                                         *)
(* Money is counted in cents and probabilities in units of 1e-5, so that   *)
(* 0.001 * (monthly_charges - 50) is (cents - 5000) units.                 *)
(***************************************************************************)
MaxSamples == 2         \* num_samples of a call
MaxCalls == 2           \* generate_data calls in one run
RngPeriod == 8          \* states of the random generator

Seed == 42                      \* np.random.seed(42)
TenureLow == 1                  \* np.random.randint(1, 72)
TenureHigh == 72
ChargeLow == 2000               \* np.random.uniform(20, 100), in cents
ChargeHigh == 10000
JitterLow == 8                  \* np.random.uniform(0.8, 1.2), in tenths
JitterHigh == 12
BaseProb == 10000               \* 0.1
MonthToMonthProb == 30000       \* 0.3 * (contract == 'Month-to-month')
FiberProb == 20000              \* 0.2 * (internet_service == 'Fiber optic')
NoSecurityProb == 15000         \* 0.15 * (online_security == 'No')
ChargePivot == 5000             \* 0.001 * (monthly_charges - 50), in cents
ClipLow == 0                    \* np.clip(churn_prob, 0, 0.9)
ClipHigh == 90000
ProbOne == 100000               \* probability 1.0

ContractSeq == <<"Month-to-month", "One year", "Two year">>
InternetSeq == <<"DSL", "Fiber optic", "No">>
SecuritySeq == <<"Yes", "No", "No internet service">>

\* True is 1 and False is 0 in arithmetic
Indicator(b) == IF b THEN 1 ELSE 0

\* np.round to the nearest unit of num / den
Round(num, den) == (2 * num + den) \div (2 * den)

\* lines 379-385
churn_prob(contract, internet_service, online_security, monthly_charges) ==
    BaseProb
    + MonthToMonthProb * Indicator(contract = "Month-to-month")
    + FiberProb * Indicator(internet_service = "Fiber optic")
    + NoSecurityProb * Indicator(online_security = "No")
    + (monthly_charges - ChargePivot)

\* np.clip
clip(x, lo, hi) == IF x < lo THEN lo ELSE IF x > hi THEN hi ELSE x

\* line 386: the first argument of np.random.binomial(1, .)
\* (variant: the probability of staying is handed over instead)
StayProbability(contract, internet_service, online_security, monthly_charges) ==
    ProbOne - clip(churn_prob(contract, internet_service, online_security,
                              monthly_charges), ClipLow, ClipHigh)
BinomialP(contract, internet_service, online_security, monthly_charges) ==
    clip(churn_prob(contract, internet_service, online_security, monthly_charges),
         ClipLow, ClipHigh)

\* The random generator: np.random.seed sets the state, every draw reads
\* the state's output and advances it.
\* (variant: the seed call is missing)
np_random_seed_skipped(state, s) == state
np_random_seed(state, s) == s % RngPeriod
NextState(state) == (5 * state + 3) % RngPeriod

RECURSIVE StateAfter(_, _)
StateAfter(state, k) == IF k = 0 THEN state ELSE StateAfter(NextState(state), k - 1)

\* the k-th draw after `state`: a numerator u of the uniform variate u / RngPeriod
Draw(state, k) == StateAfter(state, k)

randint(u, low, high) == low + (u * (high - low)) \div RngPeriod
uniform_cents(u, low, high) == Round(low * RngPeriod + u * (high - low), RngPeriod)
choice(u, options) == options[(u * Len(options)) \div RngPeriod + 1]
binomial(u, p) == Indicator(u * ProbOne < p * RngPeriod)

\* lines 368-399: the DataFrame generate_data(num_samples) returns when the
\* generator is in `state` at the call
generate_data(state, num_samples) ==
    LET s0 == np_random_seed(state, Seed)
        n == num_samples
        tenure == [i \in 1..n |-> randint(Draw(s0, i), TenureLow, TenureHigh)]
        monthly_charges ==
            [i \in 1..n |-> uniform_cents(Draw(s0, n + i), ChargeLow, ChargeHigh)]
        \* one scalar factor for the whole column (no size=)
        jitterNum == JitterLow * RngPeriod + Draw(s0, 2 * n + 1) * (JitterHigh - JitterLow)
        total_charges ==
            [i \in 1..n |-> Round(tenure[i] * monthly_charges[i] * jitterNum,
                                  10 * RngPeriod)]
        contract == [i \in 1..n |-> choice(Draw(s0, 2 * n + 1 + i), ContractSeq)]
        internet_service ==
            [i \in 1..n |-> choice(Draw(s0, 3 * n + 1 + i), InternetSeq)]
        online_security ==
            [i \in 1..n |-> choice(Draw(s0, 4 * n + 1 + i), SecuritySeq)]
        churn ==
            [i \in 1..n |->
                binomial(Draw(s0, 5 * n + 1 + i),
                         BinomialP(contract[i], internet_service[i],
                                   online_security[i], monthly_charges[i]))]
    IN  [i \in 1..n |->
            [tenure |-> tenure[i], monthly_charges |-> monthly_charges[i],
             total_charges |-> total_charges[i], contract |-> contract[i],
             internet_service |-> internet_service[i],
             online_security |-> online_security[i], churn |-> churn[i]]]

\* the state generate_data leaves the generator in: 6 * n + 1 draws after the seed
StateAfterGenerate(state, num_samples) ==
    StateAfter(np_random_seed(state, Seed), 6 * num_samples + 1)

\* a call of generate_data (line 403 calls it once; any caller may call again)
Generate ==
    /\ Len(calls) < MaxCalls
    /\ \E n \in 1..MaxSamples :
          /\ customer_data' = generate_data(rng, n)
          /\ calls' = Append(calls, [num_samples |-> n, state |-> rng,
                                     returned |-> generate_data(rng, n)])
          /\ rng' = StateAfterGenerate(rng, n)
    /\ UNCHANGED <<rfmVars, rowVars, churnVars, appVars>>

\* other code draws from np.random between two calls
OtherDraw ==
    /\ rng' = NextState(rng)
    /\ UNCHANGED <<customer_data, calls, rfmVars, rowVars, churnVars, appVars>>

\* other code seeds np.random between two calls
OtherSeed ==
    /\ \E s \in 0..(RngPeriod - 1) : rng' = np_random_seed(rng, s)
    /\ UNCHANGED <<customer_data, calls, rfmVars, rowVars, churnVars, appVars>>

InitGen ==
    /\ rng \in 0..(RngPeriod - 1)
    /\ customer_data = <<>>
    /\ calls = <<>>
    /\ IdleRFM /\ IdleRow /\ IdleChurn /\ IdleApp

NextGen == Generate \/ OtherDraw \/ OtherSeed

SpecGen == InitGen /\ [][NextGen]_vars

\* C8: any two calls of generate_data with the same num_samples return the
\* same dataset, whatever state the random generator was in at each call.
C8_SameSamplesSameDataset ==
    \A i, j \in 1..Len(calls) :
        calls[i].num_samples = calls[j].num_samples =>
            calls[i].returned = calls[j].returned

\* two calls with the same num_samples made from different generator states,
\* returning rows that are not all alike
C8_Witness ==
    \E i, j \in 1..Len(calls) :
        /\ i < j
        /\ calls[i].num_samples = calls[j].num_samples
        /\ calls[i].num_samples = MaxSamples
        /\ calls[i].state # calls[j].state
        /\ calls[i].state # Seed % RngPeriod
        /\ calls[j].returned[1] # calls[j].returned[2]

(***************************************************************************)
(* One row of generate_data, with the draws of lines 372-376 left free:    *)
(* every monthly charge of [20.00, 100.00] and every category.             *)
(***************************************************************************)
ComputeChurnProbability ==
    /\ gpc = "drawn"
    /\ binom_p' = BinomialP(sample.contract, sample.internet_service,
                            sample.online_security, sample.monthly_charges)
    /\ gpc' = "labelled"
    /\ UNCHANGED <<sample, rfmVars, genVars, churnVars, appVars>>

InitRow ==
    /\ \E c \in Range(ContractSeq), i \in Range(InternetSeq), o \in Range(SecuritySeq),
          m \in ChargeLow..ChargeHigh :
            sample = [contract |-> c, internet_service |-> i,
                      online_security |-> o, monthly_charges |-> m]
    /\ binom_p = 0
    /\ gpc = "drawn"
    /\ IdleRFM /\ IdleGen /\ IdleChurn /\ IdleApp

NextRow == ComputeChurnProbability

SpecRow == InitRow /\ [][NextRow]_vars

\* C7: the success probability handed to the Bernoulli draw of the churn
\* label lies in [0, 0.9] for every contract, internet_service,
\* online_security and monthly_charges.
C7_BinomialProbabilityClipped ==
    gpc = "labelled" => (0 <= binom_p /\ binom_p <= 90000)

\* the riskiest row: all three indicators set and the highest monthly charge
C7_Witness ==
    /\ gpc = "labelled"
    /\ sample.contract = "Month-to-month"
    /\ sample.internet_service = "Fiber optic"
    /\ sample.online_security = "No"
    /\ sample.monthly_charges = ChargeHigh
    /\ binom_p = 80000
(***************************************************************************)
(* model-training.py, part 2 (lines 416-452) and the Predict Churn page    *)
(* of app.py (lines 255-298)                                               *)
(***************************************************************************)
MaxTrain == 2           \* rows of X_train
NumTrees == 2           \* trees of the forest

\* rows generate_data can produce, with both labels and every category
TrainRowSeq ==
    << [tenure |-> 23, monthly_charges |-> 9500, total_charges |-> 223963,
        contract |-> "Month-to-month", internet_service |-> "Fiber optic",
        online_security |-> "No", churn |-> 1],
       [tenure |-> 54, monthly_charges |-> 9000, total_charges |-> 498150,
        contract |-> "One year", internet_service |-> "DSL",
        online_security |-> "Yes", churn |-> 0],
       [tenure |-> 70, monthly_charges |-> 2000, total_charges |-> 140000,
        contract |-> "Two year", internet_service |-> "No",
        online_security |-> "No internet service", churn |-> 0],
       [tenure |-> 1, monthly_charges |-> 5000, total_charges |-> 5000,
        contract |-> "Month-to-month", internet_service |-> "DSL",
        online_security |-> "Yes", churn |-> 1],
       [tenure |-> 12, monthly_charges |-> 6000, total_charges |-> 72000,
        contract |-> "Two year", internet_service |-> "Fiber optic",
        online_security |-> "No", churn |-> 0],
       [tenure |-> 36, monthly_charges |-> 10000, total_charges |-> 360000,
        contract |-> "One year", internet_service |-> "No",
        online_security |-> "No internet service", churn |-> 1] >>

\* lines 429-430
categorical_features == <<"contract", "internet_service", "online_security">>
numeric_features == <<"tenure", "monthly_charges", "total_charges">>

\* the values of each categorical column in the order np.unique sorts them
SortedCategories ==
    [contract |-> <<"Month-to-month", "One year", "Two year">>,
     internet_service |-> <<"DSL", "Fiber optic", "No">>,
     online_security |-> <<"No", "No internet service", "Yes">>]

\* line 435: OneHotEncoder(handle_unknown='ignore')
\* (variant: the encoder's default, 'error')
handle_unknown_default == "error"
handle_unknown == "ignore"

\* OneHotEncoder.fit: categories_ of one column are its sorted unique values
fit_categories(X, col) ==
    SelectSeq(SortedCategories[col], LAMBDA v : \E i \in 1..Len(X) : X[i][col] = v)

\* RandomForestClassifier.fit: classes_ are the sorted unique labels
fit_classes(X) == SelectSeq(<<0, 1>>, LAMBDA k : \E i \in 1..Len(X) : X[i].churn = k)

\* line 445: model.fit(X_train, y_train)
fit(X) ==
    [categories_ |-> [col \in Range(categorical_features) |-> fit_categories(X, col)],
     classes_ |-> fit_classes(X)]

\* OneHotEncoder.transform of one column of one row; an unknown category
\* raises unless handle_unknown is 'ignore'
ohe_raises(m, row, col) ==
    /\ handle_unknown # "ignore"
    /\ row[col] \notin Range(m.categories_[col])
ohe_transform(m, row, col) ==
    [k \in 1..Len(m.categories_[col]) |-> Indicator(m.categories_[col][k] = row[col])]

\* ColumnTransformer.transform: numeric columns pass through, categorical
\* columns are one-hot encoded (lines 432-436)
preprocess(m, row) ==
    [num |-> [k \in 1..Len(numeric_features) |-> row[numeric_features[k]]],
     cat |-> [k \in 1..Len(categorical_features) |->
                 ohe_transform(m, row, categorical_features[k])]]

RECURSIVE SeqProduct(_)
SeqProduct(s) == IF s = <<>> THEN 1 ELSE Head(s) * SeqProduct(Tail(s))

\* the training rows of class k in the leaf a tree sends the row to
LeafCount(X, leaf, k) == Cardinality({i \in leaf : X[i].churn = k})

\* RandomForestClassifier.predict_proba: the mean over the trees of the class
\* fractions of the leaf the row falls in.  `leaves[t]` is that leaf of tree
\* t, a non-empty set of training rows.  The result is a vector of
\* numerators over the common denominator forest_den.
forest_den(leaves) == Len(leaves) * SeqProduct([t \in 1..Len(leaves) |-> Cardinality(leaves[t])])
forest_proba(m, X, leaves) ==
    [c \in 1..Len(m.classes_) |->
        SeqSum([t \in 1..Len(leaves) |->
            LeafCount(X, leaves[t], m.classes_[c])
            * SeqProduct([s \in 1..Len(leaves) |->
                            IF s = t THEN 1 ELSE Cardinality(leaves[s])])])]

\* RandomForestClassifier.predict: the class of the highest mean probability
forest_predict(m, proba) ==
    m.classes_[CHOOSE c \in 1..Len(proba) :
                  /\ \A d \in 1..Len(proba) : proba[d] <= proba[c]
                  /\ \A d \in 1..(c - 1) : proba[d] < proba[c]]

\* lines 439-445
Fit ==
    /\ cpc = "split"
    /\ model' = fit(train)
    /\ cpc' = "fitted"
    /\ UNCHANGED <<train, input_data, result, rfmVars, genVars, rowVars, appVars>>

\* lines 259-283: the submitted form becomes a one-row frame, model.predict
\* and model.predict_proba run on it
PredictChurn ==
    /\ cpc = "fitted"
    /\ \E c \in Range(ContractSeq), i \in Range(InternetSeq), o \in Range(SecuritySeq) :
          input_data' = [tenure |-> 12, monthly_charges |-> 5000,
                         total_charges |-> 12 * 5000,
                         contract |-> c, internet_service |-> i,
                         online_security |-> o]
    /\ IF \E col \in Range(categorical_features) : ohe_raises(model, input_data', col)
       THEN result' = [raised |-> TRUE, encoded |-> <<>>, proba |-> <<>>,
                       den |-> 0, prediction |-> 0]
       ELSE \E leaves \in [1..NumTrees -> (SUBSET (1..Len(train))) \ {{}}] :
               LET proba == forest_proba(model, train, leaves)
               IN  result' = [raised |-> FALSE,
                              encoded |-> preprocess(model, input_data'),
                              proba |-> proba,
                              den |-> forest_den(leaves),
                              prediction |-> forest_predict(model, proba)]
    /\ cpc' = "predicted"
    /\ UNCHANGED <<train, model, rfmVars, genVars, rowVars, appVars>>

\* the training frame of line 424; customer_churn.csv holds both labels
InitChurn ==
    /\ \E n \in 1..MaxTrain : \E s \in [1..n -> 1..Len(TrainRowSeq)] :
          /\ \A k \in 1..(n - 1) : s[k] <= s[k + 1]
          /\ train = [k \in 1..n |-> TrainRowSeq[s[k]]]
    /\ \A k \in {0, 1} : \E i \in 1..Len(train) : train[i].churn = k
    /\ model = <<>>
    /\ input_data = <<>>
    /\ result = <<>>
    /\ cpc = "split"
    /\ IdleRFM /\ IdleGen /\ IdleRow /\ IdleApp

NextChurn == Fit \/ PredictChurn

SpecChurn == InitChurn /\ [][NextChurn]_vars

\* the categorical columns whose value in the input row occurs in no training row
UnseenColumns ==
    {col \in Range(categorical_features) :
        \A i \in 1..Len(train) : train[i][col] # input_data[col]}
ColumnIndex(col) == CHOOSE k \in 1..Len(categorical_features) : categorical_features[k] = col

\* C6: predicting on a row with a categorical value not seen at training
\* time does not raise; each unseen value is encoded as all zeros for its
\* column group, and predict_proba gives two entries (stay, churn), each in
\* [0, 1], that sum to 1.
C6_UnseenCategoryPredicts ==
    cpc = "predicted" /\ UnseenColumns # {} =>
        /\ ~result.raised
        /\ \A col \in UnseenColumns :
              LET group == result.encoded.cat[ColumnIndex(col)]
              IN  \A k \in 1..Len(group) : group[k] = 0
        /\ Len(result.proba) = 2
        /\ result.den > 0
        /\ \A k \in 1..Len(result.proba) :
              0 <= result.proba[k] /\ result.proba[k] <= result.den
        /\ result.proba[1] + result.proba[2] = result.den

\* none of the three categorical values was seen, and the forest is undecided
C6_Witness ==
    /\ cpc = "predicted"
    /\ UnseenColumns = Range(categorical_features)
    /\ ~result.raised
    /\ result.proba[1] > 0
    /\ result.proba[2] > 0
    /\ result.proba[1] # result.proba[2]
(***************************************************************************)
(* app.py (lines 153-358): one script run per interaction                  *)
(***************************************************************************)
MaxReruns == 3          \* script runs in one process

Pages == {"Home", "Data Explorer", "Predict Churn", "Model Analysis"}

\* what model-training.py can have written to the two files (lines 404, 452)
DatasetSeq == <<TrainRowSeq, SubSeq(TrainRowSeq, 1, 4)>>
ArtifactSeq == <<fit(TrainRowSeq), fit(SubSeq(TrainRowSeq, 1, 2))>>

\* lines 171 and 176: the decorated function runs only when its cache has
\* no entry yet
\* (variant: the decorator is missing)
CacheNeverHit(cache) == FALSE
CacheHit(cache) == cache # {}

\* the value a cached function hands back
Cached(cache) == CHOOSE v \in cache : TRUE

\* line 203: data.head()
head(df) == SubSeq(df, 1, IF Len(df) < 5 THEN Len(df) ELSE 5)

\* lines 229-233: the rows inside the tenure range with a selected contract
filtered_data(df, tenure_range, contract_filter) ==
    SelectSeq(df, LAMBDA r : /\ r.tenure >= tenure_range[1]
                             /\ r.tenure <= tenure_range[2]
                             /\ r.contract \in contract_filter)

\* line 305: data.drop('churn', axis=1)
drop_churn(df) ==
    [i \in 1..Len(df) |->
        [tenure |-> df[i].tenure, monthly_charges |-> df[i].monthly_charges,
         total_charges |-> df[i].total_charges, contract |-> df[i].contract,
         internet_service |-> df[i].internet_service,
         online_security |-> df[i].online_security]]

\* lines 307-309: the holdout of train_test_split(test_size=0.2,
\* random_state=42): ceil(0.2 * n) rows picked by a permutation that is the
\* same on every run, here the frame's last rows
X_test(df) ==
    LET n_test == (Len(df) + 4) \div 5
    IN  SubSeq(drop_churn(df), Len(df) - n_test + 1, Len(df))

\* a user interaction starts a script run (lines 167-183)
Rerun ==
    /\ app_pc = "idle"
    /\ reruns < MaxReruns
    /\ reruns' = reruns + 1
    /\ page' \in Pages
    /\ app_pc' = "load_model"
    /\ UNCHANGED <<disk, cache_resource, cache_data, loads, app_model, app_data, view>>
    /\ UNCHANGED <<rfmVars, genVars, rowVars, churnVars>>

\* line 186: model = load_model()
load_model ==
    /\ app_pc = "load_model"
    /\ IF CacheHit(cache_resource)
       THEN UNCHANGED <<cache_resource, loads>>
       ELSE /\ cache_resource' = {disk.model}
            /\ loads' = [loads EXCEPT !.model = @ + 1]
    /\ app_model' = Cached(cache_resource')
    /\ app_pc' = "load_data"
    /\ UNCHANGED <<disk, cache_data, page, app_data, view, reruns>>
    /\ UNCHANGED <<rfmVars, genVars, rowVars, churnVars>>

\* line 187: data = load_data()
load_data ==
    /\ app_pc = "load_data"
    /\ IF CacheHit(cache_data)
       THEN UNCHANGED <<cache_data, loads>>
       ELSE /\ cache_data' = {disk.data}
            /\ loads' = [loads EXCEPT !.data = @ + 1]
    /\ app_data' = Cached(cache_data')
    /\ app_pc' = "page"
    /\ UNCHANGED <<disk, cache_resource, page, app_model, view, reruns>>
    /\ UNCHANGED <<rfmVars, genVars, rowVars, churnVars>>

PageDone ==
    /\ app_pc' = "idle"
    /\ UNCHANGED <<disk, cache_resource, cache_data, loads, page, app_model,
                   app_data, reruns>>
    /\ UNCHANGED <<rfmVars, genVars, rowVars, churnVars>>

\* lines 190-203
Home ==
    /\ app_pc = "page" /\ page = "Home"
    /\ view' = [shown |-> head(app_data)]
    /\ PageDone

\* lines 206-252
DataExplorer ==
    /\ app_pc = "page" /\ page = "Data Explorer"
    /\ \E lo \in {0, 24}, hi \in {36, 72}, contract_filter \in SUBSET Range(ContractSeq) :
          view' = [shown |-> filtered_data(app_data, <<lo, hi>>, contract_filter)]
    /\ PageDone

\* lines 255-298; the forest's vote is not needed here, the encoded row is
PredictPage ==
    /\ app_pc = "page" /\ page = "Predict Churn"
    /\ \E submitted \in BOOLEAN :
       \E c \in Range(ContractSeq), i \in Range(InternetSeq), o \in Range(SecuritySeq) :
          LET row == [tenure |-> 12, monthly_charges |-> 5000,
                      total_charges |-> 12 * 5000, contract |-> c,
                      internet_service |-> i, online_security |-> o]
          IN  view' = IF submitted
                      THEN [shown |-> <<row>>, encoded |-> preprocess(app_model, row)]
                      ELSE [shown |-> <<>>]
    /\ PageDone

\* lines 301-358
ModelAnalysis ==
    /\ app_pc = "page" /\ page = "Model Analysis"
    /\ view' = [shown |-> X_test(app_data)]
    /\ PageDone

\* model-training.py runs again while the app is up and rewrites both files
FilesRewritten ==
    /\ app_pc # "off"
    /\ \E d \in Range(DatasetSeq), m \in Range(ArtifactSeq) :
          disk' = [data |-> d, model |-> m]
    /\ disk' # disk
    /\ UNCHANGED <<cache_resource, cache_data, loads, page, app_model, app_data,
                   view, reruns, app_pc>>
    /\ UNCHANGED <<rfmVars, genVars, rowVars, churnVars>>

InitApp ==
    /\ \E d \in Range(DatasetSeq), m \in Range(ArtifactSeq) :
          disk = [data |-> d, model |-> m]
    /\ cache_resource = {}
    /\ cache_data = {}
    /\ loads = [model |-> 0, data |-> 0]
    /\ page = "Home"
    /\ app_model = <<>>
    /\ app_data = <<>>
    /\ view = [shown |-> <<>>]
    /\ reruns = 0
    /\ app_pc = "idle"
    /\ IdleRFM /\ IdleGen /\ IdleRow /\ IdleChurn

NextApp ==
    \/ Rerun \/ load_model \/ load_data
    \/ Home \/ DataExplorer \/ PredictPage \/ ModelAnalysis
    \/ FilesRewritten

SpecApp == InitApp /\ [][NextApp]_vars

\* C9: over any sequence of script runs and page actions the model artifact
\* and the dataset are each loaded at most once and before any page is
\* rendered, and nothing changes the cached dataset or model once loaded;
\* what the pages show is derived from them.
C9_LoadedOnceNeverChanged ==
    /\ [](/\ loads.model <= 1
          /\ loads.data <= 1
          /\ app_pc = "page" =>
                /\ cache_resource = {app_model} /\ loads.model = 1
                /\ cache_data = {app_data} /\ loads.data = 1)
    /\ [][/\ cache_resource # {} => cache_resource' = cache_resource
          /\ cache_data # {} => cache_data' = cache_data
          /\ app_pc = "page" /\ app_pc' = "idle" =>
                /\ cache_resource' = {app_model}
                /\ cache_data' = {app_data}
                /\ page # "Predict Churn" =>
                      \A i \in 1..Len(view'.shown) :
                         \E j \in 1..Len(app_data) :
                            \/ view'.shown[i] = app_data[j]
                            \/ view'.shown[i] = drop_churn(app_data)[j]]_vars

\* a third script run shows a filtered view while both files on disk differ
\* from what was loaded once
C9_Witness ==
    /\ reruns = 3
    /\ app_pc = "idle"
    /\ page = "Data Explorer"
    /\ loads = [model |-> 1, data |-> 1]
    /\ disk.data \notin cache_data
    /\ disk.model \notin cache_resource
    /\ view.shown # <<>>
    /\ Len(view.shown) < Len(app_data)
====
